---- MODULE Spec2Model ----
(***************************************************************************)
(* Model of notebooks/utilities/quantile-map-wrf-data.ipynb: the wind      *)
(* derivation, the preparation of the simulated (WRF) and observed tables, *)
(* the quantile mapping and the per-site correction run.                   *)
(*                                                                         *)
(* Floating-point numbers are modelled as exact rationals extended with    *)
(* NaN and the two infinities (the values IEEE division by zero yields);   *)
(* rounding error is not modelled.                                         *)
(***************************************************************************)
EXTENDS Integers, Sequences, FiniteSets, TLC

VARIABLES
    \* one call of quantile_map(wrf_series, obs_series)
    qm_wrf_series, qm_obs_series, obs_quantiles, wrf_quantiles, corrected, qm_pc,
    \* one call of get_wind(u, v)
    wind_u, wind_v, wnd_spd, wnd_dir, wind_pc,
    \* one call each of prep_wrf_data and prep_obs_data
    prep_wrf_file, prep_obs_file, prep_wrf_df, prep_obs_df, prep_done,
    \* the notebook run: the input files, the prepared tables, the combined
    \* table, the corrected tables, the files written, the (site, variable)
    \* pairs corrected so far, and the position in the notebook
    raw_wrf, raw_obs, wrf, obs, df, qm, files, mapped, pc,
    \* beside the steps run in any order: the tables of the notebook's own loop
    sequential

qm_vars == <<qm_wrf_series, qm_obs_series, obs_quantiles, wrf_quantiles, corrected, qm_pc>>

wind_vars == <<wind_u, wind_v, wnd_spd, wnd_dir, wind_pc>>

prep_vars == <<prep_wrf_file, prep_obs_file, prep_wrf_df, prep_obs_df, prep_done>>

run_vars == <<raw_wrf, raw_obs, wrf, obs, df, qm, files, mapped, pc, sequential>>

vars == <<qm_vars, wind_vars, prep_vars, run_vars>>

----------------------------------------------------------------------------
\* Bounds of the model.

\* longest simulated and longest observed series of one quantile_map call
MaxLen == 3
MaxRefLen == 2
\* largest scale factor k of the "reference = k * target" scenario (besides 10)
MaxK == 3
\* largest magnitude of a wind component, and longest array given to get_wind
MaxWind == 5
MaxWindLen == 2
\* most rows of a table given to prep_wrf_data or prep_obs_data
MaxPrepRows == 2
\* rows of a simulated table of the notebook run
RunRows == 3

----------------------------------------------------------------------------
\* Numbers: exact rationals n/d in lowest terms (d > 0), NaN, +inf, -inf.

RECURSIVE GCD(_, _)
GCD(a, b) == IF b = 0 THEN a ELSE GCD(b, a % b)

Abs(a) == IF a < 0 THEN -a ELSE a

NaN == [k |-> "nan", n |-> 0, d |-> 1]
PInf == [k |-> "inf", n |-> 1, d |-> 1]
NInf == [k |-> "inf", n |-> -1, d |-> 1]

Rat(n, d) ==
    LET s == IF d < 0 THEN -1 ELSE 1
        g == GCD(Abs(n), Abs(d))
    IN  [k |-> "fin", n |-> (s * n) \div g, d |-> (s * d) \div g]

Num(i) == [k |-> "fin", n |-> i, d |-> 1]

IsNaN(a) == a.k = "nan"
IsFin(a) == a.k = "fin"
IsInf(a) == a.k = "inf"

\* sign of a non-NaN number: -1, 0 or 1
Sign(a) == IF a.n > 0 THEN 1 ELSE IF a.n < 0 THEN -1 ELSE 0

FAdd(a, b) ==
    IF IsNaN(a) \/ IsNaN(b) THEN NaN
    ELSE IF IsInf(a) /\ IsInf(b) THEN (IF a.n = b.n THEN a ELSE NaN)
    ELSE IF IsInf(a) THEN a
    ELSE IF IsInf(b) THEN b
    ELSE Rat(a.n * b.d + b.n * a.d, a.d * b.d)

FNeg(a) == IF IsNaN(a) THEN NaN ELSE [a EXCEPT !.n = -a.n]

FSub(a, b) == FAdd(a, FNeg(b))

FMul(a, b) ==
    IF IsNaN(a) \/ IsNaN(b) THEN NaN
    ELSE IF IsInf(a) \/ IsInf(b)
         THEN (IF Sign(a) * Sign(b) = 0 THEN NaN
               ELSE IF Sign(a) * Sign(b) > 0 THEN PInf ELSE NInf)
    ELSE Rat(a.n * b.n, a.d * b.d)

\* IEEE division: x/0 is +-inf, 0/0 and inf/inf are NaN
FDiv(a, b) ==
    IF IsNaN(a) \/ IsNaN(b) THEN NaN
    ELSE IF IsInf(a) /\ IsInf(b) THEN NaN
    ELSE IF IsInf(a) THEN (IF Sign(b) < 0 THEN FNeg(a) ELSE a)
    ELSE IF IsInf(b) THEN Num(0)
    ELSE IF b.n = 0
         THEN (IF a.n = 0 THEN NaN ELSE IF a.n > 0 THEN PInf ELSE NInf)
    ELSE Rat(a.n * b.d, a.d * b.n)

\* a < b as IEEE compares: false whenever either side is NaN
FLt(a, b) ==
    IF IsNaN(a) \/ IsNaN(b) THEN FALSE
    ELSE IF IsInf(a) THEN a.n < 0 /\ ~(IsInf(b) /\ b.n < 0)
    ELSE IF IsInf(b) THEN b.n > 0
    ELSE a.n * b.d < b.n * a.d

FLeq(a, b) == ~IsNaN(a) /\ ~IsNaN(b) /\ ~FLt(b, a)

\* the order numpy sorts and searches by: IEEE order with NaN last
SortLt(a, b) == ~IsNaN(a) /\ (IsNaN(b) \/ FLt(a, b))

----------------------------------------------------------------------------
\* Sequence helpers.

Range(s) == {s[i] : i \in 1..Len(s)}

\* a sequence given by a rule, as the array of its values (computed once)
AsArray(s) == s \o <<>>

RECURSIVE SelectNotNaN(_)
SelectNotNaN(s) ==
    IF s = <<>> THEN <<>>
    ELSE IF IsNaN(Head(s)) THEN SelectNotNaN(Tail(s))
    ELSE <<Head(s)>> \o SelectNotNaN(Tail(s))

\* stable insertion of x into the sorted sequence s (after its equals)
RECURSIVE Insert(_, _)
Insert(x, s) ==
    IF s = <<>> THEN <<x>>
    ELSE IF SortLt(x, Head(s)) THEN <<x>> \o s
    ELSE <<Head(s)>> \o Insert(x, Tail(s))

\* Sorted leaving the values in the order given
SortedNot(s) == s

RECURSIVE SortedUpTo(_, _)
SortedUpTo(s, m) == IF m = 0 THEN <<>> ELSE Insert(s[m], SortedUpTo(s, m - 1))

\* the values of s in ascending order (NaN last), equals in the order given
Sorted(s) == SortedUpTo(s, Len(s))


----------------------------------------------------------------------------
\* quantile_map and the library calls it makes.

\* np.arange(.1, 1, .1): the nine levels 0.1 .. 0.9
quantiles == AsArray([i \in 1..9 |-> Rat(i, 10)])

\* integer part of a non-negative rational
Floor(a) == a.n \div a.d

Min(a, b) == IF a < b THEN a ELSE b
Max(a, b) == IF a > b THEN a ELSE b

\* the valid (non-NaN) values of a series in ascending order
OrderStatistics(series) == Sorted(SelectNotNaN(series))

\* Quantile with the rank taken as q*n instead of q*(n-1)
QuantileRankN(s, q) ==
    LET n == Len(s)
        rank == FMul(q, Num(n))
        lo == Min(Floor(rank), n - 1)
        hi == Min(lo + 1, n - 1)
        gamma == FSub(rank, Num(Floor(rank)))
    IN  IF n = 0 THEN NaN
        ELSE FAdd(s[lo + 1], FMul(gamma, FSub(s[hi + 1], s[lo + 1])))

\* the quantile at level q of the order statistics s: the rank q*(n-1) is
\* interpolated linearly between the adjacent order statistics; with no
\* valid value the quantile is NaN
Quantile(s, q) ==
    LET n == Len(s)
        rank == FMul(q, Num(n - 1))
        lo == Floor(rank)
        hi == Min(lo + 1, n - 1)
        gamma == FSub(rank, Num(lo))
    IN  IF n = 0 THEN NaN
        ELSE FAdd(s[lo + 1], FMul(gamma, FSub(s[hi + 1], s[lo + 1])))

\* pd.Series.quantile(qs): NaN entries are skipped, one quantile per level
SeriesQuantile(series, qs) ==
    LET s == OrderStatistics(series)
    IN  AsArray([i \in 1..Len(qs) |-> Quantile(s, qs[i])])

\* np.argsort(x, kind="mergesort"): the stable permutation sorting x
RECURSIVE InsertIdx(_, _, _)
InsertIdx(i, p, x) ==
    IF p = <<>> THEN <<i>>
    ELSE IF SortLt(x[i], x[Head(p)]) THEN <<i>> \o p
    ELSE <<Head(p)>> \o InsertIdx(i, Tail(p), x)

RECURSIVE ArgSortUpTo(_, _)
ArgSortUpTo(x, m) == IF m = 0 THEN <<>> ELSE InsertIdx(m, ArgSortUpTo(x, m - 1), x)

ArgSort(x) == ArgSortUpTo(x, Len(x))

\* interpolate.interp1d(x, y, bounds_error=False, fill_value="extrapolate"):
\* the control points, sorted by x (assume_sorted is False)
interp1d(x, y) ==
    LET ind == ArgSort(x)
    IN  [x |-> AsArray([i \in 1..Len(x) |-> x[ind[i]]]),
         y |-> AsArray([i \in 1..Len(y) |-> y[ind[i]]])]

\* np.searchsorted(x, v), side "left": how many entries of the sorted x
\* come before v
SearchSorted(x, v) == Cardinality({i \in 1..Len(x) : SortLt(x[i], v)})

Clip(i, lo, hi) == Max(lo, Min(i, hi))

\* the segment (0-based index of its right end) the new value is
\* evaluated on: the insertion point clipped to 1 .. len(x)-1
SegmentOf(f, x_new) == Clip(SearchSorted(f.x, x_new), 1, Len(f.x) - 1)

\* CallLinear with the edge values as fill values instead of extrapolation
CallLinearClamped(f, x_new) ==
    LET hi == SegmentOf(f, x_new) + 1
        lo == hi - 1
        slope == FDiv(FSub(f.y[hi], f.y[lo]), FSub(f.x[hi], f.x[lo]))
    IN  IF FLt(x_new, f.x[1]) THEN f.y[1]
        ELSE IF FLt(f.x[Len(f.x)], x_new) THEN f.y[Len(f.y)]
        ELSE FAdd(FMul(slope, FSub(x_new, f.x[lo])), f.y[lo])

\* CallLinear with a zero slope substituted on a zero-width segment
CallLinearGuarded(f, x_new) ==
    LET hi == SegmentOf(f, x_new) + 1
        lo == hi - 1
        slope == IF f.x[hi] = f.x[lo] THEN Num(0)
                 ELSE FDiv(FSub(f.y[hi], f.y[lo]), FSub(f.x[hi], f.x[lo]))
    IN  FAdd(FMul(slope, FSub(x_new, f.x[lo])), f.y[lo])

\* interp1d._call_linear for one new value: with extrapolation on, no
\* bounds check follows, so values outside x use the edge segment's line
CallLinear(f, x_new) ==
    LET hi == SegmentOf(f, x_new) + 1
        lo == hi - 1
        slope == FDiv(FSub(f.y[hi], f.y[lo]), FSub(f.x[hi], f.x[lo]))
    IN  FAdd(FMul(slope, FSub(x_new, f.x[lo])), f.y[lo])

\* correction_function applied to the series with its NaN entries dropped
correction_function_dropna(f, series) ==
    AsArray([i \in 1..Len(SelectNotNaN(series)) |-> CallLinear(f, SelectNotNaN(series)[i])])

\* correction_function(wrf_series): elementwise, one output per input
correction_function(f, series) ==
    AsArray([i \in 1..Len(series) |-> CallLinear(f, series[i])])

quantile_map(wrf_series, obs_series) ==
    LET obs_q == SeriesQuantile(obs_series, quantiles)
        wrf_q == SeriesQuantile(wrf_series, quantiles)
        f == interp1d(wrf_q, obs_q)
    IN  correction_function(f, wrf_series)

----------------------------------------------------------------------------
\* get_wind and the metpy calls it makes. Wind components are whole numbers
\* of m/s along one axis (u = 0 or v = 0), where speed and direction are exact.

\* the root of a perfect square
ISqrt(n) == CHOOSE r \in 0..n : r * r = n

\* metpy.calc.wind_speed: sqrt(u*u + v*v)
wind_speed(u, v) == Num(ISqrt(u.n * u.n + v.n * v.n))

\* np.arctan2(y, x) in degrees, on the axes; arctan2 of two zeros is a
\* multiple of 180 that the calm mask below overrides
ArcTan2Deg(y, x) ==
    IF y > 0 THEN 90
    ELSE IF y < 0 THEN -90
    ELSE IF x < 0 THEN 180
    ELSE 0

\* wind_direction with the oceanographic convention ('to')
wind_direction_to(u, v) ==
    LET wdir == 90 - ArcTan2Deg(-v.n, -u.n) - 180
        wrapped == IF wdir <= 0 THEN wdir + 360 ELSE wdir
    IN  IF u.n = 0 /\ v.n = 0 THEN Num(0) ELSE Num(wrapped)

\* metpy.calc.wind_direction(u, v, convention='from'): 90 - arctan2(-v, -u),
\* raised by 360 where it is <= 0 (so north is 360), and 0 for calm wind
wind_direction(u, v) ==
    LET wdir == 90 - ArcTan2Deg(-v.n, -u.n)
        wrapped == IF wdir <= 0 THEN wdir + 360 ELSE wdir
    IN  IF u.n = 0 /\ v.n = 0 THEN Num(0) ELSE Num(wrapped)

\* get_wind(u, v): elementwise speed and direction of two equal-length arrays
get_wind(u, v) ==
    [wnd_spd |-> AsArray([i \in 1..Len(u) |-> wind_speed(u[i], v[i])]),
     wnd_dir |-> AsArray([i \in 1..Len(u) |-> wind_direction(u[i], v[i])])]

----------------------------------------------------------------------------
\* Tables (data frames): an index of timestamps (whole hours), named columns
\* of equally many values, the attrs annotation, and the site and source
\* columns once the join cell has materialised them (none before).

var_name_dict ==
    [c \in {"DFGDP", "T2", "RH", "WND_SPD", "WND_DIR"} |->
        CASE c = "DFGDP" -> "fog drip"
          [] c = "T2" -> "air temperature (C)"
          [] c = "RH" -> "relative humidity (%)"
          [] c = "WND_SPD" -> "wind speed (m/s)"
          [] c = "WND_DIR" -> "wind direction (deg)"]

var_list == <<"air temperature (C)", "relative humidity (%)", "wind speed (m/s)", "wind direction (deg)">>

NoAttrs == [site |-> "", source |-> ""]

\* site and source hold the values of the 'site' and 'source' columns
Frame(index, cols) ==
    [index |-> index, cols |-> cols, attrs |-> NoAttrs, site |-> <<>>, source |-> <<>>]

NoFrame == Frame(<<>>, <<>>)

SeriesSub(series, x) == AsArray([i \in 1..Len(series) |-> FSub(series[i], x)])

\* df[name] = values: replaces the column or appends it
SetColumn(cols, name, values) ==
    [c \in DOMAIN cols \cup {name} |-> IF c = name THEN values ELSE cols[c]]

NewName(dict, c) == IF c \in DOMAIN dict THEN dict[c] ELSE c

\* df.rename(columns=dict): columns the dict does not name keep their name
Rename(cols, dict) ==
    [n \in {NewName(dict, c) : c \in DOMAIN cols} |->
        cols[CHOOSE c \in DOMAIN cols : NewName(dict, c) = n]]

\* prep_wrf_data with the 8 hours added instead of subtracted
prep_wrf_data_plus8(file, dict, site) ==
    LET t2 == SeriesSub(file.cols["T2"], Num(273))
        index == AsArray([i \in 1..Len(file.index) |-> file.index[i] + 8])
        wind == get_wind(file.cols["U10"], file.cols["V10"])
        c1 == SetColumn(file.cols, "T2", t2)
        c2 == SetColumn(c1, "WND_SPD", wind.wnd_spd)
        c3 == SetColumn(c2, "WND_DIR", wind.wnd_dir)
    IN  [Frame(index, Rename(c3, dict)) EXCEPT !.attrs = [site |-> site, source |-> "wrf"]]

\* prep_wrf_data(fpath, var_name_dict, site); file is the table read from fpath
prep_wrf_data(file, dict, site) ==
    LET t2 == SeriesSub(file.cols["T2"], Num(273))
        index == AsArray([i \in 1..Len(file.index) |-> file.index[i] - 8])
        wind == get_wind(file.cols["U10"], file.cols["V10"])
        c1 == SetColumn(file.cols, "T2", t2)
        c2 == SetColumn(c1, "WND_SPD", wind.wnd_spd)
        c3 == SetColumn(c2, "WND_DIR", wind.wnd_dir)
    IN  [Frame(index, Rename(c3, dict)) EXCEPT !.attrs = [site |-> site, source |-> "wrf"]]

\* prep_obs_data(fpath, site): the index parsed, the table tagged, no value changed
prep_obs_data(file, site) ==
    [Frame(file.index, file.cols) EXCEPT !.attrs = [site |-> site, source |-> "obs"]]

----------------------------------------------------------------------------
\* Inputs of a single quantile_map call.

SampleValues == {Num(0), Num(1), Num(2), NaN}

SeriesUpTo(m) == UNION {[1..n -> SampleValues] : n \in 0..m}

\* the scenario target 1, 2, .., 10 and the series k times it
ScenarioTarget == AsArray([i \in 1..10 |-> Num(i)])

Scale(k, series) == AsArray([i \in 1..Len(series) |-> FMul(Num(k), series[i])])

\* the scale factors tried: 1..MaxK and the spec's own k = 10
ScenarioFactors == (1..MaxK) \cup {10}

ScenarioReferences == {Scale(k, ScenarioTarget) : k \in ScenarioFactors}

QMInit ==
    /\ qm_wrf_series \in SeriesUpTo(MaxLen) \cup {ScenarioTarget}
    /\ qm_obs_series \in SeriesUpTo(MaxRefLen) \cup ScenarioReferences
    /\ obs_quantiles = <<>>
    /\ wrf_quantiles = <<>>
    /\ corrected = <<>>
    /\ qm_pc = "called"

QMIdle ==
    /\ qm_wrf_series = <<>>
    /\ qm_obs_series = <<>>
    /\ obs_quantiles = <<>>
    /\ wrf_quantiles = <<>>
    /\ corrected = <<>>
    /\ qm_pc = "idle"

\* lines 111-114: the deciles of both series
QMQuantiles ==
    /\ qm_pc = "called"
    /\ obs_quantiles' = SeriesQuantile(qm_obs_series, quantiles)
    /\ wrf_quantiles' = SeriesQuantile(qm_wrf_series, quantiles)
    /\ qm_pc' = "quantiles"
    /\ UNCHANGED <<qm_wrf_series, qm_obs_series, corrected>>
    /\ UNCHANGED <<wind_vars, prep_vars, run_vars>>

\* lines 116-120: build the interpolant, apply it, return
QMCorrect ==
    /\ qm_pc = "quantiles"
    /\ corrected' = correction_function(interp1d(wrf_quantiles, obs_quantiles), qm_wrf_series)
    /\ qm_pc' = "returned"
    /\ UNCHANGED <<qm_wrf_series, qm_obs_series, obs_quantiles, wrf_quantiles>>
    /\ UNCHANGED <<wind_vars, prep_vars, run_vars>>

----------------------------------------------------------------------------
\* A single get_wind call.

AxisWinds == {w \in (-MaxWind..MaxWind) \X (-MaxWind..MaxWind) : w[1] = 0 \/ w[2] = 0}

WindArrays == UNION {[1..n -> AxisWinds] : n \in 1..MaxWindLen}

WindInit ==
    /\ \E a \in WindArrays :
          /\ wind_u = [i \in 1..Len(a) |-> Num(a[i][1])]
          /\ wind_v = [i \in 1..Len(a) |-> Num(a[i][2])]
    /\ wnd_spd = <<>>
    /\ wnd_dir = <<>>
    /\ wind_pc = "called"

WindIdle ==
    /\ wind_u = <<>>
    /\ wind_v = <<>>
    /\ wnd_spd = <<>>
    /\ wnd_dir = <<>>
    /\ wind_pc = "idle"

\* lines 85-91
GetWind ==
    /\ wind_pc = "called"
    /\ wnd_spd' = get_wind(wind_u, wind_v).wnd_spd
    /\ wnd_dir' = get_wind(wind_u, wind_v).wnd_dir
    /\ wind_pc' = "returned"
    /\ UNCHANGED <<wind_u, wind_v>>
    /\ UNCHANGED <<qm_vars, prep_vars, run_vars>>

----------------------------------------------------------------------------
\* A single prep_wrf_data call and a single prep_obs_data call.

SiteList == <<"Sauces Canyon", "Upper Embudo Canyon", "NRS SCI">>

Sites == Range(SiteList)

\* rows of a raw WRF table: T2 in kelvin, RH, and the wind components
WrfRows ==
    {[T2 |-> Num(t), RH |-> Num(50), U10 |-> Num(w[1]), V10 |-> Num(w[2])] :
        t \in {273, 288}, w \in {<<0, -5>>, <<3, 0>>}}

\* the tables of n such rows, hourly from one of two starting hours
WrfFilesOf(n) ==
    {Frame([i \in 1..n |-> start + i],
           [c \in {"T2", "RH", "U10", "V10"} |-> [i \in 1..n |-> rows[i][c]]]) :
        rows \in [1..n -> WrfRows], start \in {0, 8}}

\* rows of an observed table, already in the canonical vocabulary
ObsRows ==
    {[t |-> Num(t), d |-> Num(90)] : t \in {0, 273}}

ObsFilesOf(n) ==
    {Frame([i \in 1..n |-> start + i],
           [c \in Range(var_list) |->
               [i \in 1..n |->
                   CASE c = "air temperature (C)" -> rows[i].t
                     [] c = "relative humidity (%)" -> Num(60)
                     [] c = "wind speed (m/s)" -> Num(2)
                     [] c = "wind direction (deg)" -> rows[i].d]]) :
        rows \in [1..n -> ObsRows], start \in {0, 8}}

PrepInit ==
    /\ prep_wrf_file \in UNION {WrfFilesOf(n) : n \in 0..MaxPrepRows}
    /\ prep_obs_file \in UNION {ObsFilesOf(n) : n \in 0..MaxPrepRows}
    /\ prep_wrf_df = NoFrame
    /\ prep_obs_df = NoFrame
    /\ prep_done = {}

PrepIdle ==
    /\ prep_wrf_file = NoFrame
    /\ prep_obs_file = NoFrame
    /\ prep_wrf_df = NoFrame
    /\ prep_obs_df = NoFrame
    /\ prep_done = {}

\* lines 163-174, for any of the three sites
PrepWrfCall ==
    /\ "wrf" \notin prep_done
    /\ \E site \in Sites : prep_wrf_df' = prep_wrf_data(prep_wrf_file, var_name_dict, site)
    /\ prep_done' = prep_done \cup {"wrf"}
    /\ UNCHANGED <<prep_wrf_file, prep_obs_file, prep_obs_df>>
    /\ UNCHANGED <<qm_vars, wind_vars, run_vars>>

\* lines 195-201, for any of the three sites
PrepObsCall ==
    /\ "obs" \notin prep_done
    /\ \E site \in Sites : prep_obs_df' = prep_obs_data(prep_obs_file, site)
    /\ prep_done' = prep_done \cup {"obs"}
    /\ UNCHANGED <<prep_wrf_file, prep_obs_file, prep_wrf_df>>
    /\ UNCHANGED <<qm_vars, wind_vars, run_vars>>

----------------------------------------------------------------------------
\* The notebook run: read and prepare, join, write the combined table,
\* correct every variable of every site, save the corrected tables.

\* the i-th simulated input table: RunRows hourly rows
WrfFile(k) ==
    LET winds == <<<<0, -5>>, <<3, 0>>, <<-5, 0>>, <<0, 0>>, <<0, 2>>>>
        wind(i) == winds[((i + k) % 5) + 1]
    IN  Frame([i \in 1..RunRows |-> 8 * k + i],
              [c \in {"T2", "RH", "U10", "V10"} |->
                  [i \in 1..RunRows |->
                      CASE c = "T2" -> Num(273 + k * i)
                        [] c = "RH" -> Num(40 + ((7 * i * k) % 31))
                        [] c = "U10" -> Num(wind(i)[1])
                        [] c = "V10" -> Num(wind(i)[2])]])

\* the k-th observed input table; its length need not match the simulated one
ObsFile(k) ==
    LET n == RunRows + (k % 2)
    IN  Frame([i \in 1..n |-> 3 * k + 2 * i],
              [c \in Range(var_list) |->
                  [i \in 1..n |->
                      CASE c = "air temperature (C)" -> Num(5 * k + 2 * i)
                        [] c = "relative humidity (%)" -> Num(30 + ((11 * i + k) % 50))
                        [] c = "wind speed (m/s)" -> Num((i * k) % 4)
                        [] c = "wind direction (deg)" -> Num(90 * ((i + k) % 5))]])

\* a table without the column named c
DropColumn(f, c) == [f EXCEPT !.cols = [n \in DOMAIN f.cols \ {c} |-> f.cols[n]]]

RunWrfFiles == {WrfFile(k) : k \in 1..2}

CompleteObsFiles == {ObsFile(k) : k \in 1..2}

\* observed files that lack one of the variables
IncompleteObsFiles ==
    {DropColumn(ObsFile(1), c) : c \in {"air temperature (C)", "wind direction (deg)"}}

\* the output files (lines 230-232, 346-347)
CombinedFile == "wrf-qm-nrs-sauc-upem.pkl"

SiteFile == <<"wrf-sauc-2003-2010.pkl", "wrf-upem-2003-2010.pkl", "wrf-nrs-2014-2019.pkl">>

At(cell, i, j) == [cell |-> cell, i |-> i, j |-> j]

RECURSIVE Flatten(_)
Flatten(ss) == IF ss = <<>> THEN <<>> ELSE Head(ss) \o Flatten(Tail(ss))

\* df['site'] = df.attrs['site']; df['source'] = df.attrs['source']
Tagged(f) ==
    [f EXCEPT !.site = AsArray([i \in 1..Len(f.index) |-> f.attrs.site]),
              !.source = AsArray([i \in 1..Len(f.index) |-> f.attrs.source])]

\* pd.concat(df_list, join='inner', axis=0): the rows of all tables in list
\* order, the columns every table has
Concat(fs) ==
    LET common == {c \in DOMAIN fs[1].cols : \A k \in 1..Len(fs) : c \in DOMAIN fs[k].cols}
    IN  [index |-> Flatten([k \in 1..Len(fs) |-> fs[k].index]),
         cols |-> [c \in common |-> Flatten([k \in 1..Len(fs) |-> fs[k].cols[c]])],
         attrs |-> NoAttrs,
         site |-> Flatten([k \in 1..Len(fs) |-> fs[k].site]),
         source |-> Flatten([k \in 1..Len(fs) |-> fs[k].source])]

\* the entries of s at the positions where the mask holds, in order
RECURSIVE MaskedUpTo(_, _, _)
MaskedUpTo(s, mask, m) ==
    IF m = 0 THEN <<>>
    ELSE IF mask[m] THEN Append(MaskedUpTo(s, mask, m - 1), s[m])
    ELSE MaskedUpTo(s, mask, m - 1)

Masked(s, mask) == MaskedUpTo(s, mask, Len(s))

\* df.loc[df['source'] == source]
RowsOfSource(f, source) ==
    LET mask == [i \in 1..Len(f.index) |-> f.source[i] = source]
    IN  [index |-> Masked(f.index, mask),
         cols |-> [c \in DOMAIN f.cols |-> Masked(f.cols[c], mask)],
         attrs |-> f.attrs,
         site |-> Masked(f.site, mask),
         source |-> Masked(f.source, mask)]

\* df[var_list].copy(): a new table of the listed columns
CopyColumns(f, names) ==
    [Frame(f.index, [c \in Range(names) |-> f.cols[c]]) EXCEPT !.attrs = f.attrs]

WriteFile(fs, name, content) ==
    [n \in DOMAIN fs \cup {name} |-> IF n = name THEN content ELSE fs[n]]

\* MapStep correcting against the observed column of the first variable
MapStepFirstObs(q, o, var) ==
    [q EXCEPT !.cols[var] = quantile_map(q.cols[var], o.cols[var_list[1]])]

\* MapStep correcting every variable but the last against the last column
\* of the output table, which the last variable's step rewrites
MapStepLastColumn(q, o, var) ==
    [q EXCEPT !.cols[var] =
        quantile_map(q.cols[var],
                     IF var = var_list[Len(var_list)] THEN o.cols[var]
                     ELSE q.cols[var_list[Len(var_list)]])]

\* qm[var] = quantile_map(qm[var], obs[var]) (lines 376, 380, 384)
MapStep(q, o, var) ==
    [q EXCEPT !.cols[var] = quantile_map(q.cols[var], o.cols[var])]

\* OnRaise skipping the failed step and going on with the next one
OnRaiseSkip(at) ==
    IF at.j < Len(var_list) THEN [cell |-> "map", i |-> at.i, j |-> at.j + 1]
    ELSE IF at.i < Len(SiteList) THEN [cell |-> "copy", i |-> at.i + 1, j |-> 0]
    ELSE [cell |-> "save", i |-> 1, j |-> 0]

\* where the run goes when a correction step raises: it stops
OnRaise(at) == At("failed", at.i, at.j)

\* where the run goes after the step for variable j of site i
AfterMap(i, j) ==
    IF j < Len(var_list) THEN At("map", i, j + 1)
    ELSE IF i < Len(SiteList) THEN At("copy", i + 1, 0)
    ELSE At("save", 1, 0)

RunInit ==
    /\ raw_wrf \in [Sites -> RunWrfFiles]
    /\ raw_obs \in [Sites -> CompleteObsFiles \cup IncompleteObsFiles]
    /\ wrf = [s \in Sites |-> NoFrame]
    /\ obs = [s \in Sites |-> NoFrame]
    /\ df = NoFrame
    /\ qm = [s \in Sites |-> NoFrame]
    /\ files = <<>>
    /\ mapped = {}
    /\ pc = At("read_wrf", 1, 0)
    /\ sequential = <<>>

RunIdle ==
    /\ raw_wrf = <<>>
    /\ raw_obs = <<>>
    /\ wrf = <<>>
    /\ obs = <<>>
    /\ df = NoFrame
    /\ qm = <<>>
    /\ files = <<>>
    /\ mapped = {}
    /\ pc = At("idle", 0, 0)
    /\ sequential = <<>>

\* lines 241-243
ReadWrf ==
    /\ pc.cell = "read_wrf"
    /\ LET site == SiteList[pc.i]
       IN  wrf' = [wrf EXCEPT ![site] = prep_wrf_data(raw_wrf[site], var_name_dict, site)]
    /\ pc' = IF pc.i < Len(SiteList) THEN At("read_wrf", pc.i + 1, 0) ELSE At("read_obs", 1, 0)
    /\ UNCHANGED <<raw_wrf, raw_obs, obs, df, qm, files, mapped, sequential>>
    /\ UNCHANGED <<qm_vars, wind_vars, prep_vars>>

\* lines 245-247
ReadObs ==
    /\ pc.cell = "read_obs"
    /\ LET site == SiteList[pc.i]
       IN  obs' = [obs EXCEPT ![site] = prep_obs_data(raw_obs[site], site)]
    /\ pc' = IF pc.i < Len(SiteList) THEN At("read_obs", pc.i + 1, 0) ELSE At("join", 0, 0)
    /\ UNCHANGED <<raw_wrf, raw_obs, wrf, df, qm, files, mapped, sequential>>
    /\ UNCHANGED <<qm_vars, wind_vars, prep_vars>>

\* lines 324-329: the six tables get their site and source columns, then
\* are concatenated
Join ==
    /\ pc.cell = "join"
    /\ wrf' = [s \in Sites |-> Tagged(wrf[s])]
    /\ obs' = [s \in Sites |-> Tagged(obs[s])]
    /\ df' = Concat([k \in 1..(2 * Len(SiteList)) |->
                        IF k <= Len(SiteList) THEN Tagged(wrf[SiteList[k]])
                        ELSE Tagged(obs[SiteList[k - Len(SiteList)]])])
    /\ pc' = At("write_combined", 0, 0)
    /\ UNCHANGED <<raw_wrf, raw_obs, qm, files, mapped, sequential>>
    /\ UNCHANGED <<qm_vars, wind_vars, prep_vars>>

\* lines 346-347
WriteCombined ==
    /\ pc.cell = "write_combined"
    /\ files' = WriteFile(files, CombinedFile, RowsOfSource(df, "wrf"))
    /\ pc' = At("copy", 1, 0)
    /\ UNCHANGED <<raw_wrf, raw_obs, wrf, obs, df, qm, mapped, sequential>>
    /\ UNCHANGED <<qm_vars, wind_vars, prep_vars>>

\* lines 374, 378, 382
CopySite ==
    /\ pc.cell = "copy"
    /\ qm' = [qm EXCEPT ![SiteList[pc.i]] = CopyColumns(wrf[SiteList[pc.i]], var_list)]
    /\ pc' = At("map", pc.i, 1)
    /\ UNCHANGED <<raw_wrf, raw_obs, wrf, obs, df, files, mapped, sequential>>
    /\ UNCHANGED <<qm_vars, wind_vars, prep_vars>>

\* lines 375-376, 379-380, 383-384: one (site, variable) step; looking up a
\* variable the observed table lacks raises KeyError and ends the run
MapVar ==
    /\ pc.cell = "map"
    /\ LET site == SiteList[pc.i]
           var == var_list[pc.j]
       IN  \/ /\ var \in DOMAIN obs[site].cols
              /\ qm' = [qm EXCEPT ![site] = MapStep(qm[site], obs[site], var)]
              /\ mapped' = mapped \cup {<<site, var>>}
              /\ pc' = AfterMap(pc.i, pc.j)
           \/ /\ var \notin DOMAIN obs[site].cols
              /\ pc' = OnRaise(pc)
              /\ UNCHANGED <<qm, mapped>>
    /\ UNCHANGED <<raw_wrf, raw_obs, wrf, obs, df, files, sequential>>
    /\ UNCHANGED <<qm_vars, wind_vars, prep_vars>>

\* lines 388-390
Save ==
    /\ pc.cell = "save"
    /\ files' = WriteFile(files, SiteFile[pc.i], qm[SiteList[pc.i]])
    /\ pc' = IF pc.i < Len(SiteList) THEN At("save", pc.i + 1, 0) ELSE At("done", 0, 0)
    /\ UNCHANGED <<raw_wrf, raw_obs, wrf, obs, df, qm, mapped, sequential>>
    /\ UNCHANGED <<qm_vars, wind_vars, prep_vars>>

----------------------------------------------------------------------------
\* The twelve (site, variable) steps run in any order: each site's table is
\* copied before its steps, and each step is MapStep on that table.

\* the sequential loop of the notebook over the first m variables
RECURSIVE SeqRunUpTo(_, _, _)
SeqRunUpTo(w, o, m) ==
    IF m = 0 THEN CopyColumns(w, var_list)
    ELSE MapStep(SeqRunUpTo(w, o, m - 1), o, var_list[m])

\* the corrected table the notebook's loop produces from w and o
SeqRun(w, o) == SeqRunUpTo(w, o, Len(var_list))

SiteIndex(s) == CHOOSE i \in 1..Len(SiteList) : SiteList[i] = s

AllPairs == Sites \X Range(var_list)

ParInit ==
    /\ \E a \in 1..2 :
          /\ raw_wrf = [s \in Sites |-> WrfFile(((a + SiteIndex(s)) % 2) + 1)]
          /\ raw_obs = [s \in Sites |-> ObsFile(((a + SiteIndex(s) \div 2) % 2) + 1)]
    /\ wrf = [s \in Sites |-> Tagged(prep_wrf_data(raw_wrf[s], var_name_dict, s))]
    /\ obs = [s \in Sites |-> Tagged(prep_obs_data(raw_obs[s], s))]
    /\ df = Concat([k \in 1..(2 * Len(SiteList)) |->
                       IF k <= Len(SiteList) THEN wrf[SiteList[k]]
                       ELSE obs[SiteList[k - Len(SiteList)]]])
    /\ qm = [s \in Sites |-> NoFrame]
    /\ files = WriteFile(<<>>, CombinedFile, RowsOfSource(df, "wrf"))
    /\ mapped = {}
    /\ pc = At("parallel", 0, 0)
    /\ sequential = [s \in Sites |-> SeqRun(wrf[s], obs[s])]

ParCopy ==
    /\ pc.cell = "parallel"
    /\ \E s \in Sites :
          /\ qm[s] = NoFrame
          /\ qm' = [qm EXCEPT ![s] = CopyColumns(wrf[s], var_list)]
    /\ UNCHANGED <<raw_wrf, raw_obs, wrf, obs, df, files, mapped, pc, sequential>>
    /\ UNCHANGED <<qm_vars, wind_vars, prep_vars>>

ParMap ==
    /\ pc.cell = "parallel"
    /\ \E s \in Sites, j \in 1..Len(var_list) :
          /\ qm[s] # NoFrame
          /\ <<s, var_list[j]>> \notin mapped
          /\ qm' = [qm EXCEPT ![s] = MapStep(qm[s], obs[s], var_list[j])]
          /\ mapped' = mapped \cup {<<s, var_list[j]>>}
    /\ UNCHANGED <<raw_wrf, raw_obs, wrf, obs, df, files, pc, sequential>>
    /\ UNCHANGED <<qm_vars, wind_vars, prep_vars>>

ParSave ==
    /\ pc.cell = "parallel"
    /\ mapped = AllPairs
    /\ files' = [n \in DOMAIN files \cup Range(SiteFile) |->
                    IF n \in DOMAIN files THEN files[n]
                    ELSE qm[SiteList[CHOOSE i \in 1..Len(SiteFile) : SiteFile[i] = n]]]
    /\ pc' = At("done", 0, 0)
    /\ UNCHANGED <<raw_wrf, raw_obs, wrf, obs, df, qm, mapped, sequential>>
    /\ UNCHANGED <<qm_vars, wind_vars, prep_vars>>

----------------------------------------------------------------------------
\* The specifications.

QMNext == QMQuantiles \/ QMCorrect

InitQM == QMInit /\ WindIdle /\ PrepIdle /\ RunIdle

SpecQM == InitQM /\ [][QMNext]_vars

WindNext == GetWind

InitWind == WindInit /\ QMIdle /\ PrepIdle /\ RunIdle

SpecWind == InitWind /\ [][WindNext]_vars

PrepNext == PrepWrfCall \/ PrepObsCall

InitPrep == PrepInit /\ QMIdle /\ WindIdle /\ RunIdle

SpecPrep == InitPrep /\ [][PrepNext]_vars

Init == RunInit /\ QMIdle /\ WindIdle /\ PrepIdle

Next == ReadWrf \/ ReadObs \/ Join \/ WriteCombined \/ CopySite \/ MapVar \/ Save

Spec == Init /\ [][Next]_vars

ParNext == ParCopy \/ ParMap \/ ParSave

InitParallel == ParInit /\ QMIdle /\ WindIdle /\ PrepIdle

SpecParallel == InitParallel /\ [][ParNext]_vars

----------------------------------------------------------------------------
\* Properties of a single quantile_map call (checked under SpecQM).

\* number of distinct valid (non-NaN) values of a series
DistinctValues(series) == Cardinality(Range(SelectNotNaN(series)))

StrictlyIncreasing(s) == \A i \in 1..(Len(s) - 1) : FLt(s[i], s[i + 1])

\* the control points as interp1d holds them
ControlPoints == interp1d(wrf_quantiles, obs_quantiles)

\* C1: for a target and a reference with at least 2 distinct values each,
\* the returned sequence has exactly as many elements as the target, and
\* element i is the correction function evaluated at target[i].
C1_SameLengthAndOrder ==
    (qm_pc = "returned" /\ DistinctValues(qm_wrf_series) >= 2 /\ DistinctValues(qm_obs_series) >= 2)
        => /\ Len(corrected) = Len(qm_wrf_series)
           /\ \A i \in 1..Len(qm_wrf_series) :
                  corrected[i] = CallLinear(ControlPoints, qm_wrf_series[i])

\* a returned call on a target that holds a NaN between two distinct values
C1_Witness ==
    /\ qm_pc = "returned"
    /\ DistinctValues(qm_wrf_series) >= 2
    /\ DistinctValues(qm_obs_series) >= 2
    /\ Len(qm_wrf_series) = 3
    /\ IsNaN(qm_wrf_series[2])
    /\ FLt(qm_wrf_series[3], qm_wrf_series[1])
    /\ IsFin(corrected[1]) /\ IsFin(corrected[3])

InsufficientData ==
    DistinctValues(qm_obs_series) < 2 \/ DistinctValues(qm_wrf_series) < 2

\* C2 as stated: quantile_map never returns a corrected series when the
\* reference or the target has fewer than 2 distinct values.
C2_NeverReturnsOnInsufficientData == ~(qm_pc = "returned" /\ InsufficientData)

\* C2 as amended: for such an input quantile_map returns a sequence as long
\* as the target; every element is NaN when the target has fewer than 2
\* distinct values or the reference has no valid value, and every element is
\* NaN or the reference's single value when the reference has exactly one.
C2_DegenerateResult ==
    (qm_pc = "returned" /\ InsufficientData)
        => /\ Len(corrected) = Len(qm_wrf_series)
           /\ (DistinctValues(qm_wrf_series) < 2 \/ DistinctValues(qm_obs_series) = 0)
                  => \A i \in 1..Len(corrected) : IsNaN(corrected[i])
           /\ DistinctValues(qm_obs_series) = 1
                  => \A i \in 1..Len(corrected) :
                         IsNaN(corrected[i]) \/ corrected[i] \in Range(qm_obs_series)

\* a constant target returned as NaN
C2_Witness ==
    /\ qm_pc = "returned"
    /\ DistinctValues(qm_wrf_series) = 1
    /\ DistinctValues(qm_obs_series) >= 2
    /\ Len(corrected) = 2
    /\ IsNaN(corrected[1]) /\ IsNaN(corrected[2])

\* the line through the last two control points, anchored at the last
UpperEdgeLine(f, x) ==
    FAdd(f.y[9], FDiv(FMul(FSub(x, f.x[9]), FSub(f.y[9], f.y[8])), FSub(f.x[9], f.x[8])))

\* the line through the first two control points, anchored at the first
LowerEdgeLine(f, x) ==
    FAdd(f.y[1], FDiv(FMul(FSub(x, f.x[1]), FSub(f.y[2], f.y[1])), FSub(f.x[2], f.x[1])))

\* C3: a value above the 0.9 target decile is corrected to
\* r9 + (x - t9)*(r9 - r8)/(t9 - t8), a value below the 0.1 target decile to
\* r1 + (x - t1)*(r2 - r1)/(t2 - t1): extrapolated, not clamped, no failure.
C3_EdgeExtrapolation ==
    qm_pc = "returned"
        => \A i \in 1..Len(qm_wrf_series) :
              /\ FLt(ControlPoints.x[9], qm_wrf_series[i])
                    => corrected[i] = UpperEdgeLine(ControlPoints, qm_wrf_series[i])
              /\ FLt(qm_wrf_series[i], ControlPoints.x[1])
                    => corrected[i] = LowerEdgeLine(ControlPoints, qm_wrf_series[i])

\* a value above the last control point corrected beyond r9, and one below
\* the first control point corrected beyond r1
C3_Witness ==
    /\ qm_pc = "returned"
    /\ \E i \in 1..Len(qm_wrf_series) :
          /\ FLt(wrf_quantiles[9], qm_wrf_series[i])
          /\ FLt(obs_quantiles[9], corrected[i])
    /\ \E i \in 1..Len(qm_wrf_series) :
          /\ FLt(qm_wrf_series[i], wrf_quantiles[1])
          /\ FLt(corrected[i], obs_quantiles[1])

\* the deciles 1.9, 2.8, .., 9.1 of the scenario target
ScenarioDeciles == AsArray([i \in 1..9 |-> Rat(10 + 9 * i, 10)])

\* C4: with target = [1..10] and reference = k * target, the deciles are
\* [1.9, 2.8, .., 9.1] and k times those, and the interior values 2..9 are
\* corrected to k times themselves.
C4_ScaledReference ==
    \A k \in ScenarioFactors :
        (qm_wrf_series = ScenarioTarget /\ qm_obs_series = Scale(k, ScenarioTarget))
            => /\ qm_pc # "called"
                    => /\ wrf_quantiles = ScenarioDeciles
                       /\ obs_quantiles = Scale(k, ScenarioDeciles)
               /\ qm_pc = "returned"
                    => \A i \in 2..9 : corrected[i] = FMul(Num(k), qm_wrf_series[i])

\* the spec's scenario itself (k = 10), returned
C4_Witness ==
    /\ qm_pc = "returned"
    /\ qm_wrf_series = ScenarioTarget
    /\ qm_obs_series = Scale(10, ScenarioTarget)
    /\ corrected[2] = Num(20) /\ corrected[9] = Num(90)

----------------------------------------------------------------------------
\* Properties of a single get_wind call (checked under SpecWind).

\* C7 as stated: (0, 0) gives speed 0 and a NaN direction, (0, -5) gives
\* speed 5 and direction 0 degrees, (-5, 0) gives speed 5 and direction 90.
C7_SpecValues ==
    wind_pc = "returned"
        => \A i \in 1..Len(wind_u) :
              /\ (wind_u[i] = Num(0) /\ wind_v[i] = Num(0))
                    => (wnd_spd[i] = Num(0) /\ IsNaN(wnd_dir[i]))
              /\ (wind_u[i] = Num(0) /\ wind_v[i] = Num(-5))
                    => (wnd_spd[i] = Num(5) /\ wnd_dir[i] = Num(0))
              /\ (wind_u[i] = Num(-5) /\ wind_v[i] = Num(0))
                    => (wnd_spd[i] = Num(5) /\ wnd_dir[i] = Num(90))

\* C7 as amended: (0, 0) gives speed 0 and direction 0 (calm wind is
\* reported as 0, not NaN), (0, -5) gives speed 5 and direction 360 (north
\* is reported as 360, not 0), (-5, 0) gives speed 5 and direction 90.
C7_CodeValues ==
    wind_pc = "returned"
        => /\ Len(wnd_spd) = Len(wind_u) /\ Len(wnd_dir) = Len(wind_u)
           /\ \A i \in 1..Len(wind_u) :
                 /\ (wind_u[i] = Num(0) /\ wind_v[i] = Num(0))
                       => (wnd_spd[i] = Num(0) /\ wnd_dir[i] = Num(0))
                 /\ (wind_u[i] = Num(0) /\ wind_v[i] = Num(-5))
                       => (wnd_spd[i] = Num(5) /\ wnd_dir[i] = Num(360))
                 /\ (wind_u[i] = Num(-5) /\ wind_v[i] = Num(0))
                       => (wnd_spd[i] = Num(5) /\ wnd_dir[i] = Num(90))

\* a returned call on the array (north wind, calm)
C7_Witness ==
    /\ wind_pc = "returned"
    /\ wind_u = <<Num(0), Num(0)>>
    /\ wind_v = <<Num(-5), Num(0)>>
    /\ wnd_dir = <<Num(360), Num(0)>>

----------------------------------------------------------------------------
\* Properties of the preparation calls (checked under SpecPrep).

----------------------------------------------------------------------------
\* Properties of the notebook run (checked under Spec).

\* the position is the step for site s and variable v
AtStep(s, v) == pc.cell = "map" /\ SiteList[pc.i] = s /\ var_list[pc.j] = v

\* C5: the step for (site s, variable v) writes only column v of site s's
\* output table, the value written is quantile_map of the uncorrected
\* simulated[s][v] and observed[s][v], and every other column of every output
\* table, the prepared inputs and the other steps' results stay as they
\* were; after the run there is exactly one corrected table per site.
C5_StepFrame ==
    /\ [][\A s \in Sites, v \in Range(var_list) :
            AtStep(s, v)
                => /\ wrf' = wrf /\ obs' = obs /\ df' = df /\ files' = files
                   /\ raw_wrf' = raw_wrf /\ raw_obs' = raw_obs
                   /\ \A t \in Sites \ {s} : qm'[t] = qm[t]
                   /\ qm'[s].index = qm[s].index
                   /\ DOMAIN qm'[s].cols = DOMAIN qm[s].cols
                   /\ \A c \in DOMAIN qm[s].cols \ {v} : qm'[s].cols[c] = qm[s].cols[c]
                   /\ pc'.cell # "failed"
                        => qm'[s].cols[v] = quantile_map(wrf[s].cols[v], obs[s].cols[v])]_vars
    /\ [](pc.cell = "done"
            => /\ DOMAIN files = {CombinedFile} \cup Range(SiteFile)
               /\ \A i \in 1..Len(SiteList) : files[SiteFile[i]] = qm[SiteList[i]])

\* a finished run over three sites given different simulated and observed
\* tables, each column corrected against its own site's observations
C5_Witness ==
    /\ pc.cell = "done"
    /\ raw_wrf["Sauces Canyon"] # raw_wrf["NRS SCI"]
    /\ raw_obs["Sauces Canyon"] # raw_obs["Upper Embudo Canyon"]
    /\ mapped = AllPairs
    /\ \A s \in Sites : qm[s].cols # CopyColumns(wrf[s], var_list).cols

\* C10: no per-site corrected table is written until all twelve corrections
\* have completed; a run stopped by a raising step has written none; until
\* then the only file written is the combined table, which holds the
\* prepared, uncorrected simulated rows.
C10_SaveAfterAll ==
    /\ (DOMAIN files \cap Range(SiteFile) # {}) => mapped = AllPairs
    /\ pc.cell = "failed" => DOMAIN files = {CombinedFile}
    /\ pc.cell \in {"copy", "map"} => DOMAIN files = {CombinedFile}
    /\ CombinedFile \in DOMAIN files
          => /\ files[CombinedFile].index = Flatten([k \in 1..Len(SiteList) |-> wrf[SiteList[k]].index])
             /\ \A c \in DOMAIN files[CombinedFile].cols :
                   files[CombinedFile].cols[c]
                       = Flatten([k \in 1..Len(SiteList) |-> wrf[SiteList[k]].cols[c]])
             /\ \A i \in 1..Len(files[CombinedFile].source) : files[CombinedFile].source[i] = "wrf"

\* a run stopped at the last site, after the first two sites were corrected
C10_Witness ==
    /\ pc.cell = "failed"
    /\ pc.i = Len(SiteList)
    /\ Cardinality(mapped) >= 2 * Len(var_list)
    /\ DOMAIN files = {CombinedFile}

----------------------------------------------------------------------------
\* Properties of the steps run in any order (checked under SpecParallel).

\* C6: in whatever order the twelve steps run, every corrected column is the
\* one the notebook's sequential loop produces, every column not yet
\* corrected is still the uncorrected simulated one, and the three final
\* tables are identical to the sequential ones.
C6_OrderIndependent ==
    \A i \in 1..Len(SiteList) :
        LET s == SiteList[i]
        IN  /\ qm[s] # NoFrame
                  => /\ qm[s].index = sequential[s].index
                     /\ \A v \in Range(var_list) :
                           qm[s].cols[v] = IF <<s, v>> \in mapped
                                           THEN sequential[s].cols[v]
                                           ELSE wrf[s].cols[v]
            /\ mapped = AllPairs => qm[s] = sequential[s]
            /\ pc.cell = "done" => files[SiteFile[i]] = sequential[s]

\* all twelve steps done, reached through an order the notebook never takes:
\* the last variable of the last site corrected before anything of the first
C6_OutOfOrder ==
    /\ pc.cell = "parallel"
    /\ mapped = {<<SiteList[3], var_list[4]>>, <<SiteList[2], var_list[2]>>}
    /\ qm[SiteList[1]] = NoFrame
    /\ qm[SiteList[3]].cols[var_list[4]] # wrf[SiteList[3]].cols[var_list[4]]

====
